---- MODULE Spec2Model ----
(***************************************************************************)
(* auctiondeal_shared: the DatabaseClient connection lifecycle (db.py) and  *)
(* the ValidationUtils predicates (validation.py).                          *)
(*                                                                          *)
(* Spec     : one shared DatabaseClient instance used by MaxThreads         *)
(*            threads of control.                                           *)
(* SpecTC   : DatabaseUtils.test_connection, each call on a transient       *)
(*            client of its own.                                            *)
(* SpecVal  : the pure validation helpers applied to bounded inputs.        *)
(***************************************************************************)
EXTENDS Integers, Sequences, FiniteSets, TLC

\* ---------------------------------------------------------------- bounds
MaxThreads == 2

Threads == 1..MaxThreads

\* ------------------------------------------------------- Python values
NoneVal == "<None>"
GoodUrl == "postgresql://db"
BadUrl  == "not a url"

\* bool(x) for the values a connection string can take: None and "" are falsy
Truthy(x) == x # NoneVal /\ x # ""

\* `a or b`
PyOr(a, b) == IF Truthy(a) THEN a ELSE b

EnvValues      == {NoneVal, "", GoodUrl}
SuppliedValues == {NoneVal, "", BadUrl, GoodUrl}
\* the (query, params) pairs callers pass to execute_query
QueryArgs      == {<<"SELECT a", NoneVal>>, <<"UPDATE b", "{id: 1}">>}

NoEngine == 0

VARIABLES environ, client, ctor, frame,
          vop, vin, vout, vlogs, vdone

dbvars  == <<environ, client, ctor, frame>>
valvars == <<vop, vin, vout, vlogs, vdone>>
vars    == <<environ, client, ctor, frame, vop, vin, vout, vlogs, vdone>>

\* ------------------------------------------------------------- db.py
NoClient == [exists |-> FALSE, connection_string |-> NoneVal,
             _engine |-> NoEngine, created |-> 0, open |-> 0]

NoOutcome == [kind |-> "none", value |-> ""]
Returned(v) == [kind |-> "return", value |-> v]
Raised(e)   == [kind |-> "raise", value |-> e]

\* mutant: __init__ without the `if not self.connection_string` check
DatabaseClient_init_unchecked(connection_string, env) ==
    [outcome |-> Returned("client"),
     self |-> [exists |-> TRUE, connection_string |-> PyOr(connection_string, env),
               _engine |-> NoEngine, created |-> 0, open |-> 0]]

\* DatabaseClient.__init__: the new instance, or the ValueError it raises.
\* created/open are history fields: engines constructed for, and connections
\* currently held open on, this instance.
DatabaseClient_init(connection_string, env) ==
    LET cs == PyOr(connection_string, env)
    IN  IF ~Truthy(cs)
        THEN [outcome |-> Raised("ValueError"), self |-> NoClient]
        ELSE [outcome |-> Returned("client"),
              self |-> [exists |-> TRUE, connection_string |-> cs,
                        _engine |-> NoEngine, created |-> 0, open |-> 0]]

\* sqlalchemy.create_engine(url): parses the URL, raising on a malformed one
create_engine_ok(url) == url = GoodUrl

IdleFrame == [op |-> "none", pc |-> "idle", target |-> "none", args |-> <<>>,
              local |-> NoClient, eng |-> NoEngine, steps |-> {}, sent |-> 0,
              failed |-> "", logs |-> <<>>, result |-> NoOutcome]

\* the client a frame operates on: the shared instance or its own transient one
Cl(t) == IF frame[t].target = "local" THEN frame[t].local ELSE client

LogRecord(level, event, kv) == [level |-> level, event |-> event, kv |-> kv]

\* mutant: the except clause logs the query without its params
execute_query_except_no_params(query, params, e) ==
    [logs |-> <<LogRecord("error", "Database query failed", {<<"query", query>>})>>,
     result |-> Raised(e)]

\* execute_query's except clause: logger.error(..., query=query, params=params); raise
execute_query_except(query, params, e) ==
    [logs |-> <<LogRecord("error", "Database query failed",
                          {<<"query", query>>, <<"params", params>>})>>,
     result |-> Raised(e)]

\* mutant: health_check re-raises like execute_query
health_check_except_raises(e) ==
    [logs |-> <<LogRecord("error", "Database health check failed", {})>>,
     result |-> Raised(e)]

\* health_check's except clause: logger.error(...); return False
health_check_except(e) ==
    [logs |-> <<LogRecord("error", "Database health check failed", {})>>,
     result |-> Returned("False")]

\* test_connection: `return await client.health_check()` inside try/except Exception
test_connection_result(hc) ==
    IF hc.kind = "raise" THEN Returned("False") ELSE hc

\* mutant: test_connection lets the constructor's error through
test_connection_except_raises(e) == Raised(e)

\* test_connection's except clause when DatabaseClient(...) raises
test_connection_except(e) == Returned("False")

\* the exception the failing step raises
ExceptionAt(step) ==
    CASE step = "engine"  -> "ArgumentError"
      [] step = "connect" -> "OperationalError"
      [] step = "execute" -> "ProgrammingError"
      [] step = "commit"  -> "InternalError"
      [] OTHER            -> "ValueError"

\* the handler a failure reaches, and what the call then yields
OnFailure(f) ==
    IF f.op = "execute_query"
    THEN execute_query_except(f.args[1], f.args[2], ExceptionAt(f.failed))
    ELSE LET h == health_check_except(ExceptionAt(f.failed))
         IN  IF f.op = "test_connection"
             THEN [logs |-> h.logs, result |-> test_connection_result(h.result)]
             ELSE h

\* the value a call yields when its with-block ran to the end
OnSuccess(f) ==
    IF f.op = "execute_query" THEN Returned("result")
    ELSE IF f.op = "test_connection" THEN test_connection_result(Returned("True"))
    ELSE Returned("True")

\* mutant: execute_query without its conn.commit()
CommitsNever(op) == FALSE

\* conn.commit() follows conn.execute() in execute_query only
CommitsAfterExecute(op) == op = "execute_query"

\* mutant: the connection is opened without a with-block and never closed
ReleaseConn_leak(n) == n

\* Connection.__exit__: the connection goes back, the client holds one fewer
ReleaseConn(n) == n - 1

Init ==
    /\ environ \in EnvValues
    /\ client = NoClient
    /\ ctor = [supplied |-> NoneVal, outcome |-> NoOutcome]
    /\ frame = [t \in Threads |-> IdleFrame]
    /\ vop = "none" /\ vin = <<>> /\ vout = <<>> /\ vlogs = <<>> /\ vdone = FALSE

\* write `c` to the client that frame f of thread t operates on, with f the new frame
Store(t, f, c) ==
    IF f.target = "local"
    THEN /\ frame' = [frame EXCEPT ![t] = [f EXCEPT !.local = c]]
         /\ UNCHANGED client
    ELSE /\ frame' = [frame EXCEPT ![t] = f]
         /\ client' = c

\* the program constructs the shared instance: DatabaseClient(supplied)
Construct(supplied) ==
    /\ ~client.exists
    /\ LET r == DatabaseClient_init(supplied, environ)
       IN  /\ client' = r.self
           /\ ctor' = [supplied |-> supplied, outcome |-> r.outcome]
    /\ UNCHANGED <<environ, frame, valvars>>

Call_execute_query(t, query, params) ==
    /\ frame[t].pc = "idle"
    /\ client.exists
    /\ frame' = [frame EXCEPT ![t] =
                   [IdleFrame EXCEPT !.op = "execute_query", !.pc = "engine_check",
                                     !.target = "shared", !.args = <<query, params>>]]
    /\ UNCHANGED <<environ, client, ctor, valvars>>

Call_health_check(t) ==
    /\ frame[t].pc = "idle"
    /\ client.exists
    /\ frame' = [frame EXCEPT ![t] =
                   [IdleFrame EXCEPT !.op = "health_check", !.pc = "engine_check",
                                     !.target = "shared"]]
    /\ UNCHANGED <<environ, client, ctor, valvars>>

\* DatabaseUtils.test_connection up to the call of health_check
Call_test_connection(t, connection_string) ==
    /\ frame[t].pc = "idle"
    /\ LET r == DatabaseClient_init(connection_string, environ)
           f == [IdleFrame EXCEPT !.op = "test_connection", !.target = "local",
                                  !.args = <<connection_string>>]
       IN  frame' = [frame EXCEPT ![t] =
                IF r.outcome.kind = "raise"
                THEN [f EXCEPT !.pc = "done", !.failed = "init",
                               !.result = test_connection_except(r.outcome.value)]
                ELSE [f EXCEPT !.pc = "engine_check", !.local = r.self]]
    /\ UNCHANGED <<environ, client, ctor, valvars>>

\* DatabaseClient.engine: `if self._engine is None`
EngineCheck(t) ==
    /\ frame[t].pc = "engine_check"
    /\ frame' = [frame EXCEPT ![t].pc =
                   IF Cl(t)._engine = NoEngine THEN "engine_create" ELSE "engine_return"]
    /\ UNCHANGED <<environ, client, ctor, valvars>>

\* a failure before any connection is open goes straight to the except clause
Fail(t, step) ==
    LET f == [frame[t] EXCEPT !.failed = step, !.eng = NoEngine]
        h == OnFailure(f)
    IN  frame' = [frame EXCEPT ![t] =
                    [f EXCEPT !.pc = "done",
                              !.logs = f.logs \o h.logs, !.result = h.result]]

\* DatabaseClient.engine: `self._engine = create_engine(self.connection_string)`
EngineCreate(t) ==
    /\ frame[t].pc = "engine_create"
    /\ LET c == Cl(t)
       IN  IF create_engine_ok(c.connection_string)
           THEN Store(t, [frame[t] EXCEPT !.pc = "engine_return"],
                      [c EXCEPT !._engine = c.created + 1, !.created = c.created + 1])
           ELSE Fail(t, "engine") /\ UNCHANGED client
    /\ UNCHANGED <<environ, ctor, valvars>>

\* DatabaseClient.engine: `return self._engine`
EngineReturn(t) ==
    /\ frame[t].pc = "engine_return"
    /\ frame' = [frame EXCEPT ![t].pc = "connect", ![t].eng = Cl(t)._engine,
                              ![t].steps = @ \cup {"engine"}]
    /\ UNCHANGED <<environ, client, ctor, valvars>>

\* `with self.engine.connect() as conn`: the database may be unreachable
Connect(t) ==
    /\ frame[t].pc = "connect"
    /\ \/ Store(t, [frame[t] EXCEPT !.pc = "execute", !.eng = NoEngine,
                                      !.steps = @ \cup {"connect"}],
                [Cl(t) EXCEPT !.open = @ + 1])
       \/ Fail(t, "connect") /\ UNCHANGED client
    /\ UNCHANGED <<environ, ctor, valvars>>

\* `conn.execute(text(...))`: the statement may fail
Execute(t) ==
    /\ frame[t].pc = "execute"
    /\ \/ frame' = [frame EXCEPT ![t].steps = @ \cup {"execute"}, ![t].sent = @ + 1,
                      ![t].pc = IF CommitsAfterExecute(frame[t].op) THEN "commit" ELSE "exit"]
       \/ frame' = [frame EXCEPT ![t].failed = "execute", ![t].sent = @ + 1,
                                 ![t].pc = "exit"]
    /\ UNCHANGED <<environ, client, ctor, valvars>>

\* `conn.commit()`
Commit(t) ==
    /\ frame[t].pc = "commit"
    /\ \/ frame' = [frame EXCEPT ![t].steps = @ \cup {"commit"}, ![t].pc = "exit"]
       \/ frame' = [frame EXCEPT ![t].failed = "commit", ![t].pc = "exit"]
    /\ UNCHANGED <<environ, client, ctor, valvars>>

\* leaving the with-block: the connection is released, then the call returns
\* its value or the pending failure reaches the except clause
Exit(t) ==
    /\ frame[t].pc = "exit"
    /\ LET f == frame[t]
           c == [Cl(t) EXCEPT !.open = ReleaseConn(@)]
           h == OnFailure(f)
       IN  IF f.failed = ""
           THEN Store(t, [f EXCEPT !.pc = "done", !.result = OnSuccess(f)], c)
           ELSE Store(t, [f EXCEPT !.pc = "done", !.logs = f.logs \o h.logs,
                                   !.result = h.result], c)
    /\ UNCHANGED <<environ, ctor, valvars>>

\* the caller takes the outcome; a transient client goes out of scope
Return(t) ==
    /\ frame[t].pc = "done"
    /\ frame' = [frame EXCEPT ![t] = IdleFrame]
    /\ UNCHANGED <<environ, client, ctor, valvars>>

\* the shared instance used from every thread
Next ==
    \/ \E s \in SuppliedValues : Construct(s)
    \/ \E t \in Threads :
         \/ \E a \in QueryArgs : Call_execute_query(t, a[1], a[2])
         \/ Call_health_check(t)
         \/ EngineCheck(t)
         \/ EngineCreate(t)
         \/ EngineReturn(t)
         \/ Connect(t)
         \/ Execute(t)
         \/ Commit(t)
         \/ Exit(t)
         \/ Return(t)

Spec == Init /\ [][Next]_vars

\* DatabaseUtils.test_connection: every call works on an instance of its own,
\* which no other call can reach
NextTC ==
    \E t \in Threads :
         \/ \E s \in SuppliedValues : Call_test_connection(t, s)
         \/ EngineCheck(t)
         \/ EngineCreate(t)
         \/ EngineReturn(t)
         \/ Connect(t)
         \/ Execute(t)
         \/ Exit(t)
         \/ Return(t)

SpecTC == Init /\ [][NextTC]_vars


\* ------------------------------------------------------- validation.py
Chars(digits) == {digits[i] : i \in DOMAIN digits}
Digit  == Chars(<<"0", "1", "2", "3", "4", "5", "6", "7", "8", "9">>)
LowerHex == Digit \cup Chars(<<"a", "b", "c", "d", "e", "f">>)
Dash   == {"-"}

\* str.upper() on the letters a character class can hold
Upper(c) ==
    CASE c = "a" -> "A" [] c = "b" -> "B" [] c = "c" -> "C"
      [] c = "d" -> "D" [] c = "e" -> "E" [] c = "f" -> "F"
      [] OTHER -> c

\* re.IGNORECASE: a class also matches the other case of its letters
IgnoreCase(class) == class \cup {Upper(c) : c \in class}

\* ValidationUtils.UUID_PATTERN between ^ and $, as <<class, repetitions>> items
UUID_PATTERN ==
    << <<LowerHex, 8>>, <<Dash, 1>>,
       <<LowerHex, 4>>, <<Dash, 1>>,
       <<Chars(<<"1", "2", "3", "4", "5">>), 1>>, <<LowerHex, 3>>, <<Dash, 1>>,
       <<Chars(<<"8", "9", "a", "b">>), 1>>, <<LowerHex, 3>>, <<Dash, 1>>,
       <<LowerHex, 12>> >>

\* the pattern as one class per character
RECURSIVE Expand(_)
Expand(items) ==
    IF items = <<>> THEN <<>>
    ELSE [i \in 1..items[1][2] |-> items[1][1]] \o Expand(Tail(items))

\* `$` without re.MULTILINE: the end of the string, or just before a newline
\* that is its last character
DollarMatches(s, pos) ==
    \/ pos = Len(s) + 1
    \/ pos = Len(s) /\ s[pos] = "\n"

\* pattern.match(s) for `^classes$` under re.IGNORECASE
re_match(classes, s) ==
    /\ Len(s) >= Len(classes)
    /\ \A i \in 1..Len(classes) : s[i] \in IgnoreCase(classes[i])
    /\ DollarMatches(s, Len(classes) + 1)

\* ValidationUtils.is_valid_uuid
is_valid_uuid(value) == re_match(Expand(UUID_PATTERN), value)

\* a value together with its Python type; a str is a sequence of tokens
Str(tokens) == [type |-> "str", val |-> tokens]
NonStr(type) == [type |-> type, val |-> <<>>]

\* x.replace(old, new) with str arguments: str has it, bytes.replace rejects
\* str arguments, None and int have no such attribute
py_replace(x, old, new) ==
    CASE x.type = "str" ->
           Returned(Str([i \in DOMAIN x.val |-> IF x.val[i] = old THEN new ELSE x.val[i]]))
      [] x.type = "bytes" -> Raised("TypeError")
      [] OTHER -> Raised("AttributeError")

DateOk  == "2024-01-01"
DateBad == "2024-13-01"
Time    == "T00:00:00"
Offset  == "+00:00"

\* datetime.fromisoformat on the token sequences used here: a date, a date and
\* a time, or a date, a time and one UTC offset
fromisoformat(x) ==
    IF x.val \in {<<DateOk>>, <<DateOk, Time>>, <<DateOk, Time, Offset>>}
    THEN Returned("datetime")
    ELSE Raised("ValueError")

\* ValidationUtils.is_valid_date_string
is_valid_date_string(date_string) ==
    LET r == py_replace(date_string, "Z", Offset)
        d == IF r.kind = "raise" THEN r ELSE fromisoformat(r.value)
    IN  IF d.kind = "raise"
        THEN IF d.value \in {"ValueError", "TypeError"} THEN Returned("False") ELSE d
        ELSE Returned("True")

Fields == {"id", "name"}
FieldType(f) == IF f = "id" THEN "int" ELSE "str"

\* model_class(**data) for a schema with required fields and, possibly, a
\* validator that fails with something other than a validation error
model_construct(model_class, data) ==
    IF ~data.mapping THEN Raised("TypeError")
    ELSE IF \/ ~(model_class.required \subseteq DOMAIN data.items)
            \/ \E f \in DOMAIN data.items : data.items[f] # FieldType(f)
         THEN Raised("ValidationError")
    ELSE IF model_class.broken THEN Raised("RuntimeError")
    ELSE Returned(data.items)

\* mutant: without the trailing `except Exception` clause
validate_model_narrow(model_class, data) ==
    LET r == model_construct(model_class, data)
    IN  IF r.kind = "return"
        THEN [outcome |-> Returned(<<TRUE, <<r.value>>, <<>>>>), logs |-> <<>>]
        ELSE IF r.value = "ValidationError"
        THEN [outcome |-> Returned(<<FALSE, <<>>, <<"Validation failed", r.value>>>>),
              logs |-> <<LogRecord("warning", "Model validation failed",
                                   {<<"error", <<"Validation failed", r.value>>>>,
                                    <<"data", data>>})>>]
        ELSE [outcome |-> r, logs |-> <<>>]

\* ValidationUtils.validate_model: (ok, instance or None, message or None), with
\* None as <<>> and a message as <<prefix, text of the exception>>
validate_model(model_class, data) ==
    LET r == model_construct(model_class, data)
    IN  IF r.kind = "return"
        THEN [outcome |-> Returned(<<TRUE, <<r.value>>, <<>>>>), logs |-> <<>>]
        ELSE IF r.value = "ValidationError"
        THEN [outcome |-> Returned(<<FALSE, <<>>, <<"Validation failed", r.value>>>>),
              logs |-> <<LogRecord("warning", "Model validation failed",
                                   {<<"error", <<"Validation failed", r.value>>>>,
                                    <<"data", data>>})>>]
        ELSE [outcome |-> Returned(<<FALSE, <<>>, <<"Unexpected validation error", r.value>>>>),
              logs |-> <<LogRecord("error", "Unexpected validation error",
                                   {<<"error", <<"Unexpected validation error", r.value>>>>,
                                    <<"data", data>>})>>]

\* ---- inputs
Canonical == <<"5","5","0","e","8","4","0","0","-","e","2","9","b","-",
               "4","1","d","4","-","a","7","1","6","-",
               "4","4","6","6","5","5","4","4","0","0","0","0">>
TestChars == Chars(<<"0", "1", "5", "6", "7", "8", "9", "a", "b", "c",
                     "A", "B", "F", "g", "-", "\n", " ">>)
Suffixes  == {<<>>, <<"\n">>, <<"0">>, <<"\n", "\n">>, <<" ">>}
UuidInputs ==
    {[Canonical EXCEPT ![p] = c] \o suf :
         p \in DOMAIN Canonical, c \in TestChars, suf \in Suffixes}
    \cup {SubSeq(Canonical, 1, n) : n \in 0..Len(Canonical)}
    \cup {<<c>> \o Canonical : c \in TestChars}
    \cup {<<"n","o","t","-","a","-","u","u","i","d">>}

DateInputs ==
    {Str(s) : s \in {<<DateOk>>, <<DateOk, Time>>, <<DateOk, Time, "Z">>,
                     <<DateOk, Time, Offset>>, <<DateBad>>, <<DateBad, Time, "Z">>,
                     <<>>, <<"x">>, <<"Z">>, <<DateOk, Time, "Z", "Z">>,
                     <<DateOk, Time, Offset, "Z">>, <<DateOk, Time, "x">>}}
    \cup {NonStr("NoneType"), NonStr("int"), NonStr("bytes")}

Schemas == [required : SUBSET Fields, broken : BOOLEAN]
DataInputs ==
    {[mapping |-> TRUE, items |-> m] :
        m \in UNION {[D -> {"int", "str"}] : D \in SUBSET Fields}}
    \cup {[mapping |-> FALSE, items |-> <<>>]}

\* a caller about to apply one of the helpers to one input
InitVal ==
    /\ environ = NoneVal
    /\ client = NoClient
    /\ ctor = [supplied |-> NoneVal, outcome |-> NoOutcome]
    /\ frame = [t \in Threads |-> IdleFrame]
    /\ \/ vop = "is_valid_uuid" /\ vin \in UuidInputs
       \/ vop = "is_valid_date_string" /\ vin \in DateInputs
       \/ vop = "validate_model" /\ vin \in Schemas \X DataInputs
    /\ vout = <<>> /\ vlogs = <<>> /\ vdone = FALSE

Val_is_valid_uuid ==
    /\ vop = "is_valid_uuid" /\ ~vdone
    /\ vout' = is_valid_uuid(vin) /\ vdone' = TRUE
    /\ UNCHANGED <<dbvars, vop, vin, vlogs>>

Val_is_valid_date_string ==
    /\ vop = "is_valid_date_string" /\ ~vdone
    /\ vout' = is_valid_date_string(vin) /\ vdone' = TRUE
    /\ UNCHANGED <<dbvars, vop, vin, vlogs>>

Val_validate_model ==
    /\ vop = "validate_model" /\ ~vdone
    /\ LET r == validate_model(vin[1], vin[2])
       IN  vout' = r.outcome /\ vlogs' = r.logs
    /\ vdone' = TRUE
    /\ UNCHANGED <<dbvars, vop, vin>>

NextVal ==
    \/ Val_is_valid_uuid
    \/ Val_is_valid_date_string
    \/ Val_validate_model

SpecVal == InitVal /\ [][NextVal]_vars

\* ------------------------------------------------------------ claims
F(t) == frame[t]
AllSteps == {"engine", "connect", "execute"}
Quiescent == \A t \in Threads : F(t).pc \in {"idle", "done"}
CommitIssued(f) == "commit" \in f.steps \/ f.failed = "commit"

\* C1: for one client instance, under every interleaving of execute_query and
\* health_check, at most one engine is ever constructed and every operation
\* connects through that one cached handle.
C1_EngineConstructedOnce ==
    /\ client.created <= 1
    /\ \A t \in Threads :
         F(t).pc = "connect" => F(t).eng # NoEngine /\ F(t).eng = client._engine

\* C2: a failing execute_query emits exactly one error record carrying its
\* query and params and raises that same failure; it emits nothing and
\* returns the result otherwise, and sends the statement at most once.
C2_ExecuteQueryLogsAndRaises ==
    \A t \in Threads : F(t).op = "execute_query" =>
      /\ F(t).sent <= 1
      /\ F(t).pc # "done" => F(t).logs = <<>> /\ F(t).result = NoOutcome
      /\ F(t).pc = "done" /\ F(t).failed # "" =>
           /\ F(t).logs = <<[level |-> "error", event |-> "Database query failed",
                             kv |-> {<<"query", F(t).args[1]>>,
                                     <<"params", F(t).args[2]>>}]>>
           /\ F(t).result = [kind |-> "raise", value |-> ExceptionAt(F(t).failed)]
      /\ F(t).pc = "done" /\ F(t).failed = "" =>
           /\ F(t).logs = <<>>
           /\ F(t).result = [kind |-> "return", value |-> "result"]
           /\ F(t).steps = AllSteps \cup {"commit"}

C2_Witness ==
    \E t \in Threads :
      /\ F(t).op = "execute_query" /\ F(t).pc = "done"
      /\ F(t).failed = "commit" /\ F(t).args[2] # NoneVal

\* C3: health_check never raises; it returns True exactly when engine
\* creation, connect and SELECT 1 all succeeded, and False after one error
\* record otherwise.
C3_HealthCheckNeverRaises ==
    \A t \in Threads : F(t).op = "health_check" =>
      /\ F(t).result.kind # "raise"
      /\ F(t).pc # "done" => F(t).logs = <<>> /\ F(t).result = NoOutcome
      /\ F(t).pc = "done" =>
           /\ F(t).result.kind = "return"
           /\ F(t).result.value \in {"True", "False"}
           /\ F(t).result.value = "True" <=> AllSteps \subseteq F(t).steps
           /\ F(t).result.value = "True" => F(t).logs = <<>>
           /\ F(t).result.value = "False" =>
                /\ Len(F(t).logs) = 1
                /\ F(t).logs[1].level = "error"

C3_Witness ==
    \E t \in Threads :
      /\ F(t).op = "health_check" /\ F(t).pc = "done"
      /\ F(t).failed = "execute" /\ F(t).result.value = "False"

\* C4: whenever no database operation is in progress the client holds no
\* open connection.
C4_ConnectionsReleased ==
    Quiescent => client.open = 0

C4_Witness ==
    /\ Quiescent
    /\ \E t \in Threads : F(t).pc = "done" /\ F(t).op = "execute_query"
                          /\ F(t).failed = "execute" /\ "connect" \in F(t).steps
    /\ \E t \in Threads : F(t).pc = "done" /\ F(t).op = "health_check"
                          /\ F(t).failed = ""

\* C5 (as stated): every statement that executed, execute_query's or
\* health_check's SELECT 1, has a commit issued on its connection before the
\* connection is released.
C5_CommitAfterEveryStatement ==
    \A t \in Threads :
      F(t).pc \in {"exit", "done"} /\ "execute" \in F(t).steps => CommitIssued(F(t))

\* C5 (amended): every statement execute_query executed has a commit issued on
\* its connection before the connection is released; health_check issues no
\* commit after its SELECT 1.
C5_CommitAfterExecuteQueryOnly ==
    \A t \in Threads :
      /\ F(t).op = "execute_query" /\ F(t).pc \in {"exit", "done"}
            /\ "execute" \in F(t).steps => CommitIssued(F(t))
      /\ F(t).op = "health_check" => ~CommitIssued(F(t))

C5_Witness ==
    /\ \E t \in Threads : F(t).op = "execute_query" /\ F(t).pc = "exit"
                          /\ "commit" \in F(t).steps
    /\ \E t \in Threads : F(t).op = "health_check" /\ F(t).pc = "exit"
                          /\ "execute" \in F(t).steps

\* C6: construction fails exactly when the supplied string and DATABASE_URL are
\* both absent or empty; an existing client holds the supplied string when that
\* is non-empty and DATABASE_URL otherwise, and every database operation runs
\* on a non-empty connection string.
C6_ConstructionNeedsConnectionString ==
    LET NonEmpty(x) == x # NoneVal /\ x # ""
    IN  /\ ctor.outcome.kind = "raise" <=>
              /\ ctor.outcome # NoOutcome
              /\ ~NonEmpty(ctor.supplied) /\ ~NonEmpty(environ)
        /\ ctor.outcome.kind = "return" <=> client.exists
        /\ client.exists =>
              /\ NonEmpty(client.connection_string)
              /\ client.connection_string =
                    IF NonEmpty(ctor.supplied) THEN ctor.supplied ELSE environ
        /\ \A t \in Threads : F(t).pc # "idle" =>
              client.exists /\ NonEmpty(Cl(t).connection_string)

C6_Witness ==
    /\ client.exists /\ ctor.supplied = "" /\ client.connection_string = GoodUrl
    /\ \E t \in Threads : F(t).pc = "connect"

\* C7: test_connection never raises; it returns True exactly when the client
\* built from the supplied string (DATABASE_URL when that is absent or empty)
\* was constructed and its health check succeeded, and False otherwise.
C7_TestConnectionNeverRaises ==
    LET NonEmpty(x) == x # NoneVal /\ x # ""
    IN  \A t \in Threads : F(t).op = "test_connection" =>
          /\ F(t).result.kind # "raise"
          /\ F(t).local.exists <=> NonEmpty(F(t).args[1]) \/ NonEmpty(environ)
          /\ F(t).local.exists =>
                F(t).local.connection_string =
                    IF NonEmpty(F(t).args[1]) THEN F(t).args[1] ELSE environ
          /\ F(t).pc = "done" =>
                /\ F(t).result.kind = "return"
                /\ F(t).result.value \in {"True", "False"}
                /\ F(t).result.value = "True" <=>
                      F(t).local.exists /\ AllSteps \subseteq F(t).steps
                /\ F(t).local.open = 0

C7_Witness ==
    /\ \E t \in Threads : F(t).op = "test_connection" /\ F(t).pc = "done"
                          /\ ~F(t).local.exists /\ F(t).result.value = "False"
    /\ \E t \in Threads : F(t).op = "test_connection" /\ F(t).pc = "done"
                          /\ F(t).local.exists /\ F(t).failed = "connect"

\* C8: validate_model never raises and yields (True, instance, None) with no
\* log record when construction succeeds, and (False, None, message) otherwise:
\* one warning record and a message starting "Validation failed" for a
\* schema-validation failure, one error record for any other failure.
C8_ValidateModelShapes ==
    vop = "validate_model" /\ vdone =>
      LET c == model_construct(vin[1], vin[2])
      IN  /\ vout.kind = "return"
          /\ Len(vout.value) = 3
          /\ c.kind = "return" =>
                /\ vout.value = <<TRUE, <<c.value>>, <<>>>>
                /\ vlogs = <<>>
          /\ c.kind = "raise" =>
                /\ vout.value[1] = FALSE /\ vout.value[2] = <<>>
                /\ vout.value[3] # <<>>
                /\ Len(vlogs) = 1
                /\ vlogs[1].level =
                      IF c.value = "ValidationError" THEN "warning" ELSE "error"
                /\ c.value = "ValidationError" => vout.value[3][1] = "Validation failed"

C8_Witness ==
    /\ vop = "validate_model" /\ vdone
    /\ vin[1].broken /\ vin[1].required = {"id"}
    /\ vin[2].mapping /\ DOMAIN vin[2].items = Fields
    /\ vout.value[1] = FALSE /\ vlogs[1].level = "error"

\* C9: is_valid_date_string never raises; it returns False for every
\* non-string input and every string that does not parse after Z is replaced
\* by +00:00, and True otherwise.
C9_DateStringNeverRaises ==
    vop = "is_valid_date_string" /\ vdone =>
      /\ vout.kind = "return"
      /\ vout.value = "True" <=>
            /\ vin.type = "str"
            /\ fromisoformat(Str([i \in DOMAIN vin.val |->
                   IF vin.val[i] = "Z" THEN "+00:00" ELSE vin.val[i]])).kind = "return"
      /\ vout.value \in {"True", "False"}

\* C10: is_valid_uuid is true exactly for the 36-character strings made of hex
\* groups of lengths 8-4-4-4-12 joined by hyphens, the third group starting
\* with 1-5 and the fourth with 8, 9, a or b in either case; in particular a
\* valid UUID followed by a newline is rejected.
C10_UuidWholeString ==
    vop = "is_valid_uuid" /\ vdone =>
      LET hex  == Chars(<<"0", "1", "2", "3", "4", "5", "6", "7", "8", "9",
                          "a", "b", "c", "d", "e", "f", "A", "B", "C", "D", "E", "F">>)
          dash == {9, 14, 19, 24}
      IN  vout <=>
            /\ Len(vin) = 36
            /\ \A i \in 1..36 : IF i \in dash THEN vin[i] = "-" ELSE vin[i] \in hex
            /\ vin[15] \in Chars(<<"1", "2", "3", "4", "5">>)
            /\ vin[20] \in Chars(<<"8", "9", "a", "b", "A", "B">>)

====
